---- MODULE Spec2Model ----
(***************************************************************************)
(* Model of the incremental change tracker of src/src/main.rs: the shared  *)
(* ServerState behind the RwLock, the notify watcher callback that folds   *)
(* filesystem events into the `new` and `removed` sets, and the four HTTP  *)
(* handlers (reset, stats, drain_new, drain_removed).  Every handler and   *)
(* the callback run under the lock, so each is one action.                 *)
(***************************************************************************)
EXTENDS Integers, Sequences, FiniteSets

\* ---------------------------------------------------------------- bounds
\* Number of distinct paths the watched tree can report.
NumPaths == 3

\* ------------------------------------------------------ program constants
\* main.rs:155-156  `if req.size > 1000 { req.size = 1000; }`
MaxDrainSize == 1000
\* main.rs:62  `#[arg(long = "limit", default_value_t = 10000)]`
DefaultChangeLimit == 10000

\* ---------------------------------------------------------------- inputs
Paths == 1..NumPaths
\* Paths of the large tree used to exercise the page-size clamp.
BigPaths == 1..(MaxDrainSize + 1)
\* Values of --limit tried with the small tree.
ChangeLimits == 0..NumPaths
\* event.paths: a Vec<PathBuf> of zero, one or two paths, duplicates allowed.
ShortPathLists == {<<>>} \cup {<<p>> : p \in Paths}
PathLists == ShortPathLists \cup {<<p, q>> : p \in Paths, q \in Paths}
\* notify::EventKind as the callback distinguishes it.  "ModifyData" is any
\* Modify that is not Modify(Name(_)); "RenameOther" is RenameMode::Any/Other;
\* "Access" is any kind that is none of Create, Remove, Modify.
EventKinds == {"Create", "Remove", "ModifyData", "RenameTo", "RenameFrom",
               "RenameBoth", "RenameOther", "Access"}
RegularKinds == EventKinds \ {"RenameOther"}
\* ChangesRequest.size values sent by the scanner.
RequestSizes == {0, 1, 2, MaxDrainSize, MaxDrainSize + 1}
PositiveSizes == RequestSizes \ {0}
BigSizes == {MaxDrainSize, MaxDrainSize + 1, 99999}

VARIABLES
    server_state,   \* the variant of ServerState
    new,            \* FileSystemChanges.new     ({} when the variant is not Ok)
    removed,        \* FileSystemChanges.removed ({} when the variant is not Ok)
    change_limit,   \* cli.change_limit
    last,           \* the last operation run under the lock: its input and its response
    owed,           \* per set and path: entries of the path into the set that were
                    \* neither returned by a drain nor taken out by an event or reset
    named,          \* per path: how the events applied since the last reset named it
    holder,         \* the threads that hold a guard of the RwLock
    cb,             \* the watcher thread: its event and its position in the callback
    hd,             \* the handler tasks: request, position and response so far
    stable,         \* what the last guard dropped left behind the lock
    poisoned        \* the RwLock is poisoned: a thread panicked with the write guard

\* The threads; they take steps of their own in SpecThreads only, every
\* other specification runs an operation as one step.
threads == <<holder, cb, hd, stable>>
vars == <<server_state, new, removed, change_limit, last, owed, named, threads,
          poisoned>>

\* ------------------------------------------------------------ ServerState
\* Records list their fields in one fixed order throughout (new, removed, tag;
\* new, removed, panicked; paths, len, done, rest; paths, err, kind,
\* need_rescan; size, resp, op, from, event), the order in which the model
\* checker keeps them.
Ok(n, r) == [new |-> n, removed |-> r, tag |-> "Ok"]
TooManyChanges == [new |-> {}, removed |-> {}, tag |-> "TooManyChanges"]
ChangesErroneousDropped == [new |-> {}, removed |-> {}, tag |-> "ChangesErroneousDropped"]
\* impl Default for ServerState
default_state == Ok({}, {})
\* The value held by the lock.
locked == [new |-> new, removed |-> removed, tag |-> server_state]

Min(a, b) == IF a < b THEN a ELSE b

\* ---------------------------------------------------------- HTTP handlers
reset_keep_sentinel(st) == IF st.tag = "Ok" THEN default_state ELSE st
\* reset_handler: *state = ServerState::Ok(FileSystemChanges::default())
reset_handler(st) == default_state

\* The response of a handler; "None" for the callback and for reset.
NoResponse == [new |-> 0, removed |-> 0, variant |-> "None", paths |-> {},
               len |-> 0, done |-> FALSE]

\* ServerStats::from_state
from_state_swapped(st) ==
    IF st.tag = "Ok"
    THEN [NoResponse EXCEPT !.variant = "Ok",
                            !.removed = Cardinality(st.new),
                            !.new = Cardinality(st.removed)]
    ELSE [NoResponse EXCEPT !.variant = st.tag]
from_state(st) ==
    IF st.tag = "Ok"
    THEN [NoResponse EXCEPT !.variant = "Ok",
                            !.removed = Cardinality(st.removed),
                            !.new = Cardinality(st.new)]
    ELSE [NoResponse EXCEPT !.variant = st.tag]

\* stats_handler
stats_handler(st) == from_state(st)

clamp_size_none(size) == size
\* if req.size > 1000 { req.size = 1000; }
clamp_size(size) == IF size > MaxDrainSize THEN MaxDrainSize ELSE size

\* The subsets of S with k elements, enumerated from the smaller side.
RECURSIVE Choose(_, _)
Choose(S, k) ==
    IF k = 0 THEN {{}}
    ELSE UNION {{D \cup {x} : D \in Choose(S \ {x}, k - 1)} : x \in S}
Take(S, k) ==
    IF 2 * k <= Cardinality(S) THEN Choose(S, k)
    ELSE {S \ K : K \in Choose(S, Cardinality(S) - k)}

\* The drain loop `for _ in 0..size`: every iteration that finds an element
\* (set.iter().next(), an arbitrary one) pushes it and removes it from the
\* set; the first iteration that finds none sets done and breaks.  So
\* min(size, |set|) arbitrary elements are popped, and done is set exactly
\* when an iteration ran on the empty set, i.e. when |set| < size.
\* Result: the possible outcomes [paths: popped, rest: what stays, done].
drain_loop_keeps_last(set, size) ==
    {[paths |-> D, len |-> Cardinality(D),
      done |-> (Cardinality(set) < size),
      rest |-> IF Cardinality(D) = 0 THEN set
               ELSE (set \ D) \cup {CHOOSE x \in D : TRUE}] :
        D \in Take(set, Min(size, Cardinality(set)))}
drain_loop(set, size) ==
    {[paths |-> D, len |-> Cardinality(D),
      done |-> (Cardinality(set) < size), rest |-> set \ D] :
        D \in Take(set, Min(size, Cardinality(set)))}

drain_new_handler_sentinel_as_empty(st, size) ==
    {[state |-> IF st.tag = "Ok" THEN Ok(d.rest, st.removed) ELSE st,
      resp |-> [NoResponse EXCEPT !.variant = "New", !.paths = d.paths,
                                  !.len = d.len, !.done = d.done]] :
        d \in drain_loop(st.new, clamp_size(size))}
\* drain_new_handler: the possible [state, resp] results.
drain_new_handler(st, size) ==
    IF st.tag # "Ok"
    THEN {[state |-> st, resp |-> [NoResponse EXCEPT !.variant = st.tag]]}
    ELSE {[state |-> Ok(d.rest, st.removed),
           resp |-> [NoResponse EXCEPT !.variant = "New", !.paths = d.paths,
                                       !.len = d.len, !.done = d.done]] :
            d \in drain_loop(st.new, clamp_size(size))}

\* drain_removed_handler: the possible [state, resp] results.
drain_removed_handler(st, size) ==
    IF st.tag # "Ok"
    THEN {[state |-> st, resp |-> [NoResponse EXCEPT !.variant = st.tag]]}
    ELSE {[state |-> Ok(st.new, d.rest),
           resp |-> [NoResponse EXCEPT !.variant = "Removed", !.paths = d.paths,
                                       !.len = d.len, !.done = d.done]] :
            d \in drain_loop(st.removed, clamp_size(size))}

\* -------------------------------------------------------- watcher callback
\* A delivered Result<notify::Event, notify::Error>.
ErrEvent == [paths |-> <<>>, err |-> TRUE, kind |-> "None", need_rescan |-> FALSE]
OkEvent(kind, paths, rescan) ==
    [paths |-> paths, err |-> FALSE, kind |-> kind, need_rescan |-> rescan]
NoEvent == [paths |-> <<>>, err |-> FALSE, kind |-> "None", need_rescan |-> FALSE]

add_new_no_erase(c, p) == [new |-> c.new \cup {p}, removed |-> c.removed]
\* ok_state.removed.remove(&path); ok_state.new.insert(path);
add_new(c, p) == [new |-> c.new \cup {p}, removed |-> c.removed \ {p}]
add_removed_no_erase(c, p) == [new |-> c.new, removed |-> c.removed \cup {p}]
\* ok_state.new.remove(&path); ok_state.removed.insert(path);
add_removed(c, p) == [new |-> c.new \ {p}, removed |-> c.removed \cup {p}]
add_both_only_new(c, p) == [new |-> c.new \cup {p}, removed |-> c.removed \ {p}]
\* ok_state.new.insert(path.clone()); ok_state.removed.insert(path);
add_both(c, p) == [new |-> c.new \cup {p}, removed |-> c.removed \cup {p}]

apply_path(c, p, op) ==
    CASE op = "add_new" -> add_new(c, p)
      [] op = "add_removed" -> add_removed(c, p)
      [] op = "add_both" -> add_both(c, p)

\* event.paths.drain(..).for_each(|path| ...)
RECURSIVE for_each(_, _, _)
for_each(c, paths, op) ==
    IF paths = <<>> THEN c
    ELSE for_each(apply_path(c, Head(paths), op), Tail(paths), op)

\* The sets an arm of the match leaves, and whether it panicked on the way.
returns(c) == [new |-> c.new, removed |-> c.removed, panicked |-> FALSE]
panics(c) == [new |-> c.new, removed |-> c.removed, panicked |-> TRUE]

rename_both_reversed(c, paths, debug_assertions) ==
    IF Len(paths) = 2
    THEN returns(add_new(add_removed(c, paths[2]), paths[1]))
    ELSE IF debug_assertions THEN panics(c) ELSE returns(c)
rename_both_any_length(c, paths, debug_assertions) ==
    IF Len(paths) = 2 THEN returns(add_new(add_removed(c, paths[1]), paths[2]))
    ELSE IF Len(paths) = 1 THEN returns(add_removed(c, paths[1]))
    ELSE returns(c)
\* RenameMode::Both arm: only a vector of exactly two paths is applied.  The
\* other branch is debug_assert!(false, ..): nothing in a build without debug
\* assertions (cargo build --release), a panic in a build with them (cargo's
\* default profile), before any set was touched.
rename_both(c, paths, debug_assertions) ==
    IF Len(paths) = 2
    THEN LET to_path == paths[2]
             from_path == paths[1]
         IN returns(add_new(add_removed(c, from_path), to_path))
    ELSE IF debug_assertions THEN panics(c) ELSE returns(c)

\* match event.kind { ... }
apply_event(c, kind, paths, debug_assertions) ==
    CASE kind = "Create" -> returns(for_each(c, paths, "add_new"))
      [] kind = "Remove" -> returns(for_each(c, paths, "add_removed"))
      [] kind = "RenameTo" -> returns(for_each(c, paths, "add_new"))
      [] kind = "RenameFrom" -> returns(for_each(c, paths, "add_removed"))
      [] kind = "RenameBoth" -> rename_both(c, paths, debug_assertions)
      [] kind = "RenameOther" -> returns(for_each(c, paths, "add_both"))
      [] kind = "ModifyData" -> returns(for_each(c, paths, "add_new"))
      [] OTHER -> returns(c)

over_limit_ge(total_changes, limit) == total_changes >= limit
over_limit_never(total_changes, limit) == FALSE
\* if total_changes > cli.change_limit
over_limit(total_changes, limit) == total_changes > limit

\* The error / need_rescan pre-check.
degraded_only_error(ev) == ev.err
degraded(ev) == ev.err \/ ev.need_rescan

\* let ok_state = match &mut *state_lock { ServerState::Ok(v) => v, _ => return }
guarded_only_dropped(st) == st.tag = "ChangesErroneousDropped"
guarded_only_too_many(st) == st.tag = "TooManyChanges"
guarded(st) == st.tag # "Ok"

\* The callback panics while it holds the write guard: the guard is dropped
\* by the unwinding and the RwLock is poisoned.  The debug_assert is the one
\* panic of the closure once it has the guard (both pop().unwrap() follow the
\* length check), so only a build with debug assertions has any.
callback_panics(st, ev, debug_assertions) ==
    /\ debug_assertions
    /\ ~degraded(ev)
    /\ ~guarded(st)
    /\ apply_event([new |-> st.new, removed |-> st.removed], ev.kind, ev.paths,
                   debug_assertions).panicked

\* What the closure leaves behind the lock after the match gave c: the state
\* st that was there when the match panicked, as the ceiling check is not
\* reached, and else what `if total_changes > cli.change_limit` leaves.
ceiling_check(c, st, limit) ==
    IF c.panicked THEN st
    ELSE IF over_limit(Cardinality(c.new) + Cardinality(c.removed), limit)
    THEN TooManyChanges
    ELSE Ok(c.new, c.removed)

\* The whole callback: the state it leaves behind the lock.
watcher_callback(st, ev, limit, debug_assertions) ==
    IF degraded(ev) THEN ChangesErroneousDropped
    ELSE IF guarded(st) THEN st
    ELSE ceiling_check(apply_event([new |-> st.new, removed |-> st.removed],
                                   ev.kind, ev.paths, debug_assertions),
                       st, limit)

\* The builds that take different steps on the event: debug_assertions is
\* read by the debug_assert! of the Both arm and nowhere else.
profiles(ev) ==
    IF ev.kind = "RenameBoth" /\ Len(ev.paths) # 2 THEN BOOLEAN ELSE {FALSE}

\* ------------------------------------------------------------------ ghost
\* owed after the set `new` went from `before` to `after` by an event or a
\* reset (entries are credited, exits are written off) ...
owed_after_change(o, before, after) ==
    [p \in DOMAIN o |-> IF p \in after \ before THEN o[p] + 1
                        ELSE IF p \in before \ after THEN o[p] - 1
                        ELSE o[p]]
\* ... and after a drain returned `paths`.
owed_after_return(o, paths) ==
    [p \in DOMAIN o |-> IF p \in paths THEN o[p] - 1 ELSE o[p]]
\* Nothing is owed for an empty set, one entry for each path of a full one.
owed_for(universe, set) == [p \in universe |-> IF p \in set THEN 1 ELSE 0]

\* How the applied events named a path of both sets since it was last
\* outside one of them ("none" for every other path):
\*   "none"          no applied event named it;
\*   "other"         a rename of unknown direction named it, no event of
\*                   another kind did since;
\*   "other_ignored" as "other", but events that match no arm of the
\*                   callback (and no other) named it since;
\*   "another"       the last event that named it and matched an arm was of
\*                   another kind.
\* An event is applied when it passes the pre-check and the sentinel guard.
named_for(universe) == [p \in universe |-> "none"]
\* Only the paths of both sets of `st` keep their entry.
named_in(n, st) ==
    [p \in DOMAIN n |->
        IF st.tag = "Ok" /\ p \in st.new /\ p \in st.removed THEN n[p] ELSE "none"]
\* The arms of `match event.kind` that touch no set.
unmatched(kind, paths) ==
    \/ kind = "Access"
    \/ kind = "RenameBoth" /\ Len(paths) # 2
named_after_event(n, st, ev, after) ==
    IF degraded(ev) \/ guarded(st) THEN named_in(n, after)
    ELSE named_in([p \in DOMAIN n |->
            IF \A i \in 1..Len(ev.paths) : ev.paths[i] # p THEN n[p]
            ELSE IF ev.kind = "RenameOther" THEN "other"
            ELSE IF ~unmatched(ev.kind, ev.paths) THEN "another"
            ELSE IF n[p] \in {"other", "other_ignored"} THEN "other_ignored"
            ELSE n[p]], after)

\* ---------------------------------------------------------------- threads
\* The tokio tasks that run a handler at the same time.
NumHandlers == 2
Handlers == 1..NumHandlers
\* The thread notify calls the callback on.
WatcherThread == 0

can_lock_always(guards) == TRUE
\* RwLock::write() returns a guard once no other guard is alive.
can_lock(guards) == guards = {}
\* RwLock::read() returns a guard once no write guard is alive; the read
\* guards are those of the tasks that run stats_handler.
can_read(guards, tasks) ==
    \A t \in guards : t # WatcherThread /\ tasks[t].op = "stats"

\* The watcher thread outside the callback, and a task without a request.
IdleCallback == [ev |-> NoEvent, pc |-> "idle", todo |-> <<>>]
IdleHandler == [size |-> 0, resp |-> NoResponse, op |-> "none", pc |-> "idle",
                left |-> 0]

\* The set operations of one event, one entry <<operation, path>> for each
\* closure call of for_each and two for a rename [from, to]; the debug_assert
\* of a rename without two paths, which is of no path.
event_steps(kind, paths) ==
    CASE kind \in {"Create", "RenameTo", "ModifyData"} ->
            [i \in 1..Len(paths) |-> <<"add_new", paths[i]>>]
      [] kind \in {"Remove", "RenameFrom"} ->
            [i \in 1..Len(paths) |-> <<"add_removed", paths[i]>>]
      [] kind = "RenameOther" ->
            [i \in 1..Len(paths) |-> <<"add_both", paths[i]>>]
      [] kind = "RenameBoth" ->
            IF Len(paths) = 2
            THEN <<(<<"add_removed", paths[1]>>), (<<"add_new", paths[2]>>)>>
            ELSE <<(<<"debug_assert", 0>>)>>
      [] OTHER -> <<>>

\* ---------------------------------------------------------------- actions
Install(st) ==
    /\ server_state' = st.tag
    /\ new' = st.new
    /\ removed' = st.removed

\* `from` is the variant the operation found behind the lock.
Record(op, ev, size, resp) ==
    last' = [size |-> size, resp |-> resp, op |-> op, from |-> server_state,
             event |-> ev]

OwedAfterChange(st) ==
    owed' = [new |-> owed_after_change(owed.new, new, st.new),
             removed |-> owed_after_change(owed.removed, removed, st.removed)]

\* write().unwrap() and read().unwrap() on a poisoned lock: the lock hands
\* out an Err(PoisonError) and the operation panics on it before it has looked
\* at the state, which stays as the panicking thread left it.
PoisonError ==
    /\ Record("panic", NoEvent, 0, NoResponse)
    /\ UNCHANGED <<server_state, new, removed, change_limit, owed, named, threads,
                   poisoned>>

\* The watcher callback, once it has the guard, runs for one delivered event
\* in a build with or without debug assertions: it ends with st behind the
\* lock, by returning or by a panic.
CallbackEnds(ev, st, panicked) ==
    /\ Install(st)
    /\ Record("event", ev, 0, NoResponse)
    /\ OwedAfterChange(st)
    /\ named' = named_after_event(named, locked, ev, st)
    /\ poisoned' = panicked
    /\ UNCHANGED <<change_limit, threads>>
Callback(ev) ==
    \E debug_assertions \in profiles(ev) :
        CallbackEnds(ev,
                     watcher_callback(locked, ev, change_limit, debug_assertions),
                     callback_panics(locked, ev, debug_assertions))

\* An event without the rescan flag.
WatcherEvent ==
    IF poisoned THEN PoisonError
    ELSE \E kind \in EventKinds, paths \in PathLists :
            Callback(OkEvent(kind, paths, FALSE))

\* The same without RenameMode::Any/Other.
WatcherRegularEvent ==
    IF poisoned THEN PoisonError
    ELSE \E kind \in RegularKinds, paths \in PathLists :
            Callback(OkEvent(kind, paths, FALSE))

\* An event on one path, or a rename of one path to another.
WatcherPollingEvent ==
    IF poisoned THEN PoisonError
    ELSE \/ \E kind \in EventKinds \ {"RenameBoth"}, p \in Paths :
               Callback(OkEvent(kind, <<p>>, FALSE))
         \/ \E p \in Paths, q \in Paths :
               Callback(OkEvent("RenameBoth", <<p, q>>, FALSE))

\* An event carrying Flag::Rescan (event.need_rescan()), of whatever kind.
WatcherRescan ==
    IF poisoned THEN PoisonError
    ELSE \E kind \in EventKinds, paths \in ShortPathLists :
            Callback(OkEvent(kind, paths, TRUE))

WatcherError == IF poisoned THEN PoisonError ELSE Callback(ErrEvent)

Reset ==
    IF poisoned THEN PoisonError
    ELSE LET st == reset_handler(locked)
         IN /\ Install(st)
            /\ Record("reset", NoEvent, 0, NoResponse)
            /\ OwedAfterChange(st)
            /\ named' = named_for(DOMAIN named)
            /\ UNCHANGED <<change_limit, threads, poisoned>>

Stats ==
    IF poisoned THEN PoisonError
    ELSE /\ Record("stats", NoEvent, 0, stats_handler(locked))
         /\ UNCHANGED <<server_state, new, removed, change_limit, owed, named,
                        threads, poisoned>>

DrainNewOf(size) ==
    IF poisoned THEN PoisonError
    ELSE \E r \in drain_new_handler(locked, size) :
            /\ Install(r.state)
            /\ Record("drain_new", NoEvent, size, r.resp)
            /\ owed' = [owed EXCEPT !.new = owed_after_return(@, r.resp.paths)]
            /\ named' = named_in(named, r.state)
            /\ UNCHANGED <<change_limit, threads, poisoned>>

DrainRemovedOf(size) ==
    IF poisoned THEN PoisonError
    ELSE \E r \in drain_removed_handler(locked, size) :
            /\ Install(r.state)
            /\ Record("drain_removed", NoEvent, size, r.resp)
            /\ owed' = [owed EXCEPT !.removed = owed_after_return(@, r.resp.paths)]
            /\ named' = named_in(named, r.state)
            /\ UNCHANGED <<change_limit, threads, poisoned>>

DrainNew == \E size \in RequestSizes : DrainNewOf(size)
DrainRemoved == \E size \in RequestSizes : DrainRemovedOf(size)
\* The scanner's polling: a page size of at least one.
DrainNewPositive == \E size \in PositiveSizes : DrainNewOf(size)
DrainRemovedPositive == \E size \in PositiveSizes : DrainRemovedOf(size)

\* ---------------------------------------------------------- specification
Started == [size |-> 0, resp |-> NoResponse, op |-> "start", from |-> "Ok",
            event |-> NoEvent]

\* RwLock::new: not poisoned and no guard alive; the watcher thread and
\* every task are idle.
NoThreads ==
    /\ poisoned = FALSE
    /\ holder = {}
    /\ cb = IdleCallback
    /\ hd = [h \in Handlers |-> IdleHandler]
    /\ stable = default_state

\* main: ServerState::default() behind the lock, `--limit` as given.
Init ==
    /\ server_state = default_state.tag
    /\ new = default_state.new
    /\ removed = default_state.removed
    /\ change_limit \in ChangeLimits
    /\ last = Started
    /\ owed = [new |-> owed_for(Paths, new), removed |-> owed_for(Paths, removed)]
    /\ named = named_for({})
    /\ NoThreads

Next ==
    \/ WatcherEvent
    \/ WatcherRescan
    \/ WatcherError
    \/ Reset
    \/ Stats
    \/ DrainNew
    \/ DrainRemoved

Spec == Init /\ [][Next]_vars

\* The adapter never reports a rename of unknown direction.
NextRegular ==
    \/ WatcherRegularEvent
    \/ WatcherRescan
    \/ WatcherError
    \/ Reset
    \/ Stats
    \/ DrainNew
    \/ DrainRemoved

SpecRegular == Init /\ [][NextRegular]_vars

\* The scanner keeps polling both drains with a positive page size while
\* events of every kind, errors and resets go on; the lock is granted to
\* every handler that waits for it.
NextPolling ==
    \/ WatcherPollingEvent
    \/ WatcherError
    \/ Reset
    \/ DrainNewPositive
    \/ DrainRemovedPositive

SpecPolling ==
    /\ Init
    /\ [][NextPolling]_vars
    /\ WF_vars(DrainNewPositive)
    /\ WF_vars(DrainRemovedPositive)

\* ------------------------------------------- a tree larger than one page
\* The scanner asks for a full page or more.
DrainNewBig == \E size \in BigSizes : DrainNewOf(size)
DrainRemovedBig == \E size \in BigSizes : DrainRemovedOf(size)

\* The states after the files 1..n were created (or removed) one by one with
\* the default limit, n around the page size; and the state after one file
\* more than a limit of MaxDrainSize admits.  Nothing is audited here.
InitBig ==
    /\ owed = [new |-> owed_for({}, {}), removed |-> owed_for({}, {})]
    /\ named = named_for({})
    /\ NoThreads
    /\ \/ /\ server_state = "Ok"
          /\ change_limit = DefaultChangeLimit
          /\ \E n \in {MaxDrainSize - 1, MaxDrainSize, MaxDrainSize + 1} :
                \/ /\ new = 1..n
                   /\ removed = {}
                   /\ last = [Started EXCEPT !.op = "event",
                                 !.event = OkEvent("Create", <<n>>, FALSE)]
                \/ /\ new = {}
                   /\ removed = 1..n
                   /\ last = [Started EXCEPT !.op = "event",
                                 !.event = OkEvent("Remove", <<n>>, FALSE)]
       \/ /\ server_state = "TooManyChanges"
          /\ change_limit = MaxDrainSize
          /\ new = {}
          /\ removed = {}
          /\ last = [Started EXCEPT !.op = "event",
                        !.event = OkEvent("Create", <<MaxDrainSize + 1>>, FALSE)]

NextBig ==
    \/ WatcherError
    \/ DrainNewBig
    \/ DrainRemovedBig

SpecBig == InitBig /\ [][NextBig]_vars

\* ------------------------------------------ the history of every path
\* Every event, error, reset and request of Spec, with the naming of the
\* paths of both sets recorded instead of the entries owed.
InitNamed ==
    /\ server_state = default_state.tag
    /\ new = default_state.new
    /\ removed = default_state.removed
    /\ change_limit \in ChangeLimits
    /\ last = Started
    /\ owed = [new |-> owed_for({}, {}), removed |-> owed_for({}, {})]
    /\ named = named_for(Paths)
    /\ NoThreads

SpecNamed == InitNamed /\ [][Next]_vars

\* ------------------------------------------------- threads and the lock
\* The callback and the handlers as the threads run them: a step takes the
\* lock, or does one thing under it; the step that ends the operation drops
\* the guard.  The response of a handler is in its task until then; nothing
\* is audited and no history is kept here.
Unlock(t, st) ==
    /\ Install(st)
    /\ holder' = holder \ {t}
    /\ stable' = st

\* let mut state_lock = server_state.write().unwrap();
\* On a poisoned lock the thread gets the lock, panics on the unwrap and the
\* guard inside the error is dropped: nothing is left of the call.
CbLock(ev) ==
    /\ cb.pc = "idle"
    /\ can_lock(holder)
    /\ IF poisoned THEN UNCHANGED vars
       ELSE /\ holder' = holder \cup {WatcherThread}
            /\ cb' = [ev |-> ev, pc |-> "check", todo |-> <<>>]
            /\ UNCHANGED <<server_state, new, removed, change_limit, last, owed,
                           named, poisoned, hd, stable>>

CbReturn(st) ==
    /\ Unlock(WatcherThread, st)
    /\ cb' = IdleCallback
    /\ UNCHANGED <<change_limit, last, owed, named, poisoned, hd>>

\* The error / rescan pre-check and the sentinel guard.
CbCheck ==
    /\ cb.pc = "check"
    /\ IF degraded(cb.ev) THEN CbReturn(ChangesErroneousDropped)
       ELSE IF guarded(locked) THEN CbReturn(locked)
       ELSE /\ cb' = [cb EXCEPT !.pc = "apply",
                                 !.todo = event_steps(cb.ev.kind, cb.ev.paths)]
            /\ UNCHANGED <<server_state, new, removed, change_limit, last, owed,
                           named, poisoned, holder, hd, stable>>

\* One closure call of for_each, or one half of a rename [from, to].
CbApply ==
    /\ cb.pc = "apply"
    /\ cb.todo # <<>>
    /\ Head(cb.todo)[1] # "debug_assert"
    /\ LET c == apply_path([new |-> new, removed |-> removed],
                           Head(cb.todo)[2], Head(cb.todo)[1])
       IN /\ new' = c.new
          /\ removed' = c.removed
    /\ cb' = [cb EXCEPT !.todo = Tail(@)]
    /\ UNCHANGED <<server_state, change_limit, last, owed, named, poisoned, holder, hd,
                   stable>>

\* debug_assert!(false, ..) of the Both arm.  Without debug assertions there
\* is nothing to run; with them the thread panics, the unwinding drops
\* state_lock and the lock is poisoned.
CbAssert ==
    /\ cb.pc = "apply"
    /\ cb.todo # <<>>
    /\ Head(cb.todo)[1] = "debug_assert"
    /\ \E debug_assertions \in profiles(cb.ev) :
          IF debug_assertions
          THEN /\ Unlock(WatcherThread, locked)
               /\ cb' = IdleCallback
               /\ poisoned' = TRUE
               /\ UNCHANGED <<change_limit, last, owed, named, hd>>
          ELSE /\ cb' = [cb EXCEPT !.todo = Tail(@)]
               /\ UNCHANGED <<server_state, new, removed, change_limit, last, owed,
                              named, poisoned, holder, hd, stable>>

\* The ceiling check; the closure returns and state_lock is dropped.
CbCeiling ==
    /\ cb.pc = "apply"
    /\ cb.todo = <<>>
    /\ IF over_limit(Cardinality(new) + Cardinality(removed), change_limit)
       THEN CbReturn(TooManyChanges)
       ELSE CbReturn(locked)

\* let mut state = state.write().unwrap();  (read() in stats_handler)
HLock(h, op, size) ==
    /\ hd[h].pc = "idle"
    /\ IF op = "stats" THEN can_read(holder, hd) ELSE can_lock(holder)
    /\ IF poisoned THEN UNCHANGED vars
       ELSE /\ holder' = holder \cup {h}
            /\ hd' = [hd EXCEPT ![h] = [IdleHandler EXCEPT !.size = size,
                                                           !.op = op,
                                                           !.pc = "locked"]]
            /\ UNCHANGED <<server_state, new, removed, change_limit, last, owed,
                           named, poisoned, cb, stable>>

\* A step of task h that leaves the state behind the lock as it is.
HStep(h, task) ==
    /\ hd' = [hd EXCEPT ![h] = task]
    /\ UNCHANGED <<server_state, new, removed, change_limit, last, owed, named, poisoned,
                   holder, cb, stable>>

\* *state = ServerState::Ok(FileSystemChanges::default()); the guard drops.
HReset(h) ==
    /\ hd[h].pc = "locked"
    /\ hd[h].op = "reset"
    /\ Unlock(h, reset_handler(locked))
    /\ hd' = [hd EXCEPT ![h] = IdleHandler]
    /\ UNCHANGED <<change_limit, last, owed, named, poisoned, cb>>

\* ServerStats::from_state(&*guard)
HStats(h) ==
    /\ hd[h].pc = "locked"
    /\ hd[h].op = "stats"
    /\ HStep(h, [hd[h] EXCEPT !.resp = stats_handler(locked), !.pc = "respond"])

\* The `match &mut *state` of a drain handler and the clamp of req.size.
HDrainMatch(h) ==
    /\ hd[h].pc = "locked"
    /\ hd[h].op \in {"drain_new", "drain_removed"}
    /\ IF server_state # "Ok"
       THEN HStep(h, [hd[h] EXCEPT !.resp.variant = server_state,
                                   !.pc = "respond"])
       ELSE HStep(h, [hd[h] EXCEPT
                !.resp.variant = IF hd[h].op = "drain_new" THEN "New" ELSE "Removed",
                !.pc = "loop", !.left = clamp_size(hd[h].size)])

\* One iteration of `for _ in 0..req.size`, or the end of the loop.
HDrainLoop(h) ==
    /\ hd[h].pc = "loop"
    /\ LET set == IF hd[h].op = "drain_new" THEN new ELSE removed
       IN IF hd[h].left = 0 THEN HStep(h, [hd[h] EXCEPT !.pc = "respond"])
          ELSE IF set = {}
          THEN HStep(h, [hd[h] EXCEPT !.resp.done = TRUE, !.pc = "respond"])
          ELSE \E x \in set :
                  /\ IF hd[h].op = "drain_new"
                     THEN new' = new \ {x} /\ removed' = removed
                     ELSE removed' = removed \ {x} /\ new' = new
                  /\ hd' = [hd EXCEPT ![h].resp.paths = @ \cup {x},
                                      ![h].resp.len = @ + 1,
                                      ![h].left = @ - 1]
                  /\ UNCHANGED <<server_state, change_limit, last, owed, named, poisoned,
                                 holder, cb, stable>>

\* The handler returns its response and the guard drops.
HRespond(h) ==
    /\ hd[h].pc = "respond"
    /\ Unlock(h, locked)
    /\ hd' = [hd EXCEPT ![h] = IdleHandler]
    /\ UNCHANGED <<change_limit, last, owed, named, poisoned, cb>>

\* The events the adapter delivers and the requests the scanner sends here.
WatcherCall ==
    \/ \E kind \in EventKinds, paths \in PathLists :
          CbLock(OkEvent(kind, paths, FALSE))
    \/ CbLock(OkEvent("Create", <<>>, TRUE))
    \/ CbLock(ErrEvent)
Request ==
    \E h \in Handlers :
        \/ HLock(h, "reset", 0)
        \/ HLock(h, "stats", 0)
        \/ \E size \in RequestSizes : HLock(h, "drain_new", size)
        \/ \E size \in RequestSizes : HLock(h, "drain_removed", size)

InitThreads ==
    /\ server_state = default_state.tag
    /\ new = default_state.new
    /\ removed = default_state.removed
    /\ change_limit \in ChangeLimits
    /\ last = Started
    /\ owed = [new |-> owed_for({}, {}), removed |-> owed_for({}, {})]
    /\ named = named_for({})
    /\ NoThreads

NextThreads ==
    \/ WatcherCall
    \/ CbCheck
    \/ CbApply
    \/ CbAssert
    \/ CbCeiling
    \/ Request
    \/ \E h \in Handlers : HReset(h)
    \/ \E h \in Handlers : HStats(h)
    \/ \E h \in Handlers : HDrainMatch(h)
    \/ \E h \in Handlers : HDrainLoop(h)
    \/ \E h \in Handlers : HRespond(h)

SpecThreads == InitThreads /\ [][NextThreads]_vars

\* ================================================================== claims
Range(seq) == {seq[i] : i \in 1..Len(seq)}
Total == Cardinality(new) + Cardinality(removed)
\* The last operation was an event that passed the error / rescan pre-check.
PlainEvent(l) == l.op = "event" /\ ~l.event.err /\ ~l.event.need_rescan
DegradedEvent(l) == l.op = "event" /\ (l.event.err \/ l.event.need_rescan)

\* C1 (I1/P1, disjointness): as long as no rename of unknown direction is
\* delivered, no path is in both `new` and `removed` in any Ok state, whatever
\* events, drains, stats and resets ran.  Checked under SpecRegular.
C1_Disjoint == server_state = "Ok" => new \cap removed = {}

\* A rename [from, to] left one path in each set.
C1_Witness ==
    /\ server_state = "Ok"
    /\ PlainEvent(last)
    /\ last.event.kind = "RenameBoth"
    /\ Len(last.event.paths) = 2
    /\ last.event.paths[1] \in removed
    /\ last.event.paths[2] \in new

\* C2 (I3/P2, bounded size): in every Ok state |new| + |removed| is at most
\* change_limit, a path in both sets counting twice.
C2_Bounded == server_state = "Ok" => Total <= change_limit

\* An event filled the sets exactly to the limit, one path being in both.
C2_Witness ==
    /\ server_state = "Ok"
    /\ PlainEvent(last)
    /\ change_limit >= 2
    /\ Total = change_limit
    /\ new \cap removed # {}

\* What the transition table of the spec makes of the sets for one event.
C3_Table(kind, paths) ==
    LET P == Range(paths)
    IN CASE kind \in {"Create", "ModifyData", "RenameTo"} ->
              [new |-> new \cup P, removed |-> removed \ P]
         [] kind \in {"Remove", "RenameFrom"} ->
              [new |-> new \ P, removed |-> removed \cup P]
         [] kind = "RenameBoth" /\ Len(paths) = 2 ->
              [new |-> (new \ {paths[1]}) \cup {paths[2]},
               removed |-> (removed \cup {paths[1]}) \ {paths[2]}]
         [] kind = "RenameOther" ->
              [new |-> new \cup P, removed |-> removed \cup P]
         [] OTHER -> [new |-> new, removed |-> removed]

\* C3 (exact ceiling): an event without error or rescan flag applied in Ok
\* leads to TooManyChanges, both sets discarded, exactly when the total after
\* applying all its paths is strictly above change_limit; otherwise the
\* tracker stays Ok with the paths applied.
C3_CeilingExact ==
    [][(server_state = "Ok" /\ PlainEvent(last')) =>
        LET c == C3_Table(last'.event.kind, last'.event.paths)
        IN IF Cardinality(c.new) + Cardinality(c.removed) > change_limit
           THEN server_state' = "TooManyChanges" /\ new' = {} /\ removed' = {}
           ELSE server_state' = "Ok" /\ new' = c.new /\ removed' = c.removed]_vars

\* With a limit of 2, a Create of a single path crossed the ceiling: the
\* third distinct path.
C3_Witness ==
    /\ server_state = "TooManyChanges"
    /\ change_limit = 2
    /\ PlainEvent(last)
    /\ last.from = "Ok"
    /\ last.event.kind = "Create"
    /\ Len(last.event.paths) = 1

\* C4 (degradation pre-check): a source error or an event with the rescan
\* flag leaves ChangesErroneousDropped behind, from any state and whatever
\* the event's kind, and no path of it reaches a set.
C4_Degraded ==
    [][DegradedEvent(last') =>
        server_state' = "ChangesErroneousDropped" /\ new' = {} /\ removed' = {}]_vars

\* A Create with the rescan flag arrived in TooManyChanges.
C4_Witness ==
    /\ server_state = "ChangesErroneousDropped"
    /\ last.op = "event"
    /\ last.from = "TooManyChanges"
    /\ last.event.need_rescan
    /\ last.event.kind = "Create"
    /\ last.event.paths # <<>>

\* C5 (P3): ChangesErroneousDropped is left by reset only: every event,
\* error, stats and drain keeps it.
C5_Absorbing ==
    [][(server_state = "ChangesErroneousDropped" /\ last'.op # "reset") =>
        server_state' = "ChangesErroneousDropped"]_vars

\* A plain Create was delivered in ChangesErroneousDropped.
C5_Witness ==
    /\ server_state = "ChangesErroneousDropped"
    /\ PlainEvent(last)
    /\ last.from = "ChangesErroneousDropped"
    /\ last.event.kind = "Create"
    /\ last.event.paths # <<>>

\* C6 (P4): reset leaves Ok with both sets empty, whatever it found behind
\* the lock.  A request does not get that far only when the lock is poisoned,
\* which nothing but the assertion of a build with debug assertions on a
\* Rename-Both event without two paths brings about; it then changes nothing.
C6_Reset ==
    [][/\ last'.op = "reset" =>
            server_state' = "Ok" /\ new' = {} /\ removed' = {}
       /\ last'.op = "panic" =>
            poisoned /\ UNCHANGED <<server_state, new, removed>>
       /\ (poisoned' /\ ~poisoned) =>
            /\ PlainEvent(last')
            /\ last'.event.kind = "RenameBoth"
            /\ Len(last'.event.paths) # 2]_vars

\* A reset ran in ChangesErroneousDropped.
C6_Witness ==
    /\ last.op = "reset"
    /\ last.from = "ChangesErroneousDropped"
    /\ server_state = "Ok"

\* C7 (done flag), as claimed: after a drain in Ok, done is true exactly when
\* the drained set is empty.
C7_DoneIffEmpty ==
    /\ (last.op = "drain_new" /\ last.resp.variant = "New") =>
           (last.resp.done <=> new = {})
    /\ (last.op = "drain_removed" /\ last.resp.variant = "Removed") =>
           (last.resp.done <=> removed = {})

\* Nothing is owed beyond the present content of the sets: every path that
\* entered a set was returned by a drain, or taken out by an event or a
\* reset, or is still there, and none of these twice.
Conserved ==
    /\ owed.new = owed_for(DOMAIN owed.new, new)
    /\ owed.removed = owed_for(DOMAIN owed.removed, removed)

NewGrows == new' \ new # {}
RemovedGrows == removed' \ removed # {}
NewDone ==
    server_state = "Ok" => (last.op = "drain_new" /\ last.resp.done /\ new = {})
RemovedDone ==
    server_state = "Ok" =>
        (last.op = "drain_removed" /\ last.resp.done /\ removed = {})

\* C8 (P6, drain completeness): the drains return every path exactly as often
\* as it entered the set and was not taken out by an event or reset; and a
\* scanner that keeps polling a set with a positive size gets done = true
\* again and again (while the tracker is Ok) once events stop adding paths to
\* that set.  Checked under SpecPolling.
C8_DrainComplete ==
    /\ []Conserved
    /\ (<>[][~NewGrows]_vars) => []<>NewDone
    /\ (<>[][~RemovedGrows]_vars) => []<>RemovedDone

\* A drain returned the last paths of `new` and reported done.
C8_Witness ==
    /\ server_state = "Ok"
    /\ last.op = "drain_new"
    /\ last.resp.done
    /\ last.resp.len = 2
    /\ new = {}

\* C9 (P5), as claimed: a drain of an empty set in Ok returns no path and
\* done = true for any size, and changes neither set nor the variant.
C9_DrainEmpty ==
    [][/\ (server_state = "Ok" /\ new = {} /\ last'.op = "drain_new") =>
            /\ last'.resp.paths = {}
            /\ last'.resp.done
            /\ UNCHANGED <<server_state, new, removed>>
       /\ (server_state = "Ok" /\ removed = {} /\ last'.op = "drain_removed") =>
            /\ last'.resp.paths = {}
            /\ last'.resp.done
            /\ UNCHANGED <<server_state, new, removed>>]_vars

\* C10 (P7, size clamp): in every state a request above MaxDrainSize has the
\* same possible outcomes as a request of MaxDrainSize, and no response
\* carries more than MaxDrainSize paths.  Checked under SpecBig.
C10_SizeClamp ==
    /\ \A size \in BigSizes :
          /\ drain_new_handler(locked, size) = drain_new_handler(locked, MaxDrainSize)
          /\ drain_removed_handler(locked, size) =
                 drain_removed_handler(locked, MaxDrainSize)
    /\ last.resp.len <= MaxDrainSize
    /\ Cardinality(last.resp.paths) = last.resp.len

\* A request above the page size got exactly one page and left a path behind.
C10_Witness ==
    /\ server_state = "Ok"
    /\ last.op = "drain_new"
    /\ last.size > MaxDrainSize
    /\ last.resp.len = MaxDrainSize
    /\ ~last.resp.done
    /\ new # {}

\* The handler just run was stats or a drain.
ReadOp(l) == l.op \in {"stats", "drain_new", "drain_removed"}
OkVariantOf(op) ==
    CASE op = "stats" -> "Ok"
      [] op = "drain_new" -> "New"
      [] op = "drain_removed" -> "Removed"

\* C11 (sentinels as response variants): in TooManyChanges and in
\* ChangesErroneousDropped, stats and both drains answer with that variant
\* and no paths for every size and leave the state as it is; in Ok they
\* answer with Ok / New / Removed.
C11_SentinelVariants ==
    [][ReadOp(last') =>
        IF server_state = "Ok"
        THEN last'.resp.variant = OkVariantOf(last'.op) /\ server_state' = "Ok"
        ELSE /\ last'.resp.variant = server_state
             /\ last'.resp.paths = {}
             /\ last'.resp.len = 0
             /\ UNCHANGED <<server_state, new, removed>>]_vars

\* drain_new with a page size of 1000 was answered "TooManyChanges".
C11_Witness ==
    /\ server_state = "TooManyChanges"
    /\ last.op = "drain_new"
    /\ last.size = MaxDrainSize
    /\ last.from = "TooManyChanges"
    /\ last.resp.variant = "TooManyChanges"

\* C12 (last event wins): after a Create, Modify-content or Rename-To that
\* leaves the tracker Ok every path of the event is in `new` and not in
\* `removed`; after a Remove or Rename-From every path of it is in `removed`
\* and not in `new`; all other paths are where they were.
C12_LastEventWins ==
    [][(server_state = "Ok" /\ PlainEvent(last') /\ server_state' = "Ok") =>
        LET P == Range(last'.event.paths)
            kind == last'.event.kind
        IN /\ kind \in {"Create", "ModifyData", "RenameTo"} =>
                 /\ P \subseteq new'
                 /\ P \cap removed' = {}
                 /\ new' \ P = new \ P
                 /\ removed' \ P = removed \ P
           /\ kind \in {"Remove", "RenameFrom"} =>
                 /\ P \subseteq removed'
                 /\ P \cap new' = {}
                 /\ new' \ P = new \ P
                 /\ removed' \ P = removed \ P]_vars

\* Remove [1] came last: path 1 is in `removed` only, path 2 still in `new`.
C12_Witness ==
    /\ server_state = "Ok"
    /\ PlainEvent(last)
    /\ last.event.kind = "Remove"
    /\ last.event.paths = <<1>>
    /\ new = {2}
    /\ removed = {1}

\* Rename-From [from] followed by Rename-To [to], as two events, in a build
\* with or without debug assertions.
C13_FromThenTo(from_path, to_path, debug_assertions) ==
    watcher_callback(
        watcher_callback(locked, OkEvent("RenameFrom", <<from_path>>, FALSE),
                         change_limit, debug_assertions),
        OkEvent("RenameTo", <<to_path>>, FALSE), change_limit, debug_assertions)
C13_FromAloneOk(from_path) ==
    \A debug_assertions \in BOOLEAN :
        watcher_callback(locked, OkEvent("RenameFrom", <<from_path>>, FALSE),
                         change_limit, debug_assertions).tag = "Ok"
C13_Membership(from_path, to_path) ==
    server_state' = "Ok" =>
        /\ to_path \in new' /\ to_path \notin removed'
        /\ from_path # to_path => (from_path \in removed' /\ from_path \notin new')
C13_IsRenameBoth ==
    /\ server_state = "Ok"
    /\ PlainEvent(last')
    /\ last'.event.kind = "RenameBoth"
    /\ Len(last'.event.paths) = 2

\* C13 (Rename-Both), as claimed: Rename-Both [from, to] in Ok leaves `to` in
\* `new` only and `from` (if another path) in `removed` only, and its result
\* is the result of Rename-From [from] followed by Rename-To [to].
C13_AsClaimed ==
    [][C13_IsRenameBoth =>
        /\ C13_Membership(last'.event.paths[1], last'.event.paths[2])
        /\ \A debug_assertions \in BOOLEAN :
              [new |-> new', removed |-> removed', tag |-> server_state'] =
                  C13_FromThenTo(last'.event.paths[1], last'.event.paths[2],
                                 debug_assertions)]_vars

\* C13, amended: the same, the equality with the two events holding whenever
\* Rename-From [from] alone leaves the tracker Ok.
C13_RenameBoth ==
    [][C13_IsRenameBoth =>
        /\ C13_Membership(last'.event.paths[1], last'.event.paths[2])
        /\ C13_FromAloneOk(last'.event.paths[1]) =>
              \A debug_assertions \in BOOLEAN :
                 [new |-> new', removed |-> removed', tag |-> server_state'] =
                     C13_FromThenTo(last'.event.paths[1], last'.event.paths[2],
                                    debug_assertions)]_vars

\* Rename-Both [2, 1] after Rename-Both [1, 2]: new = {1}, removed = {2}.
C13_Witness ==
    /\ server_state = "Ok"
    /\ PlainEvent(last)
    /\ last.event.kind = "RenameBoth"
    /\ last.event.paths = <<2, 1>>
    /\ new = {1}
    /\ removed = {2}

\* C15 (TooManyChanges guard): from TooManyChanges the tracker stays in
\* TooManyChanges, or goes to ChangesErroneousDropped by an erroneous or
\* degraded event, or to Ok with both sets empty by a reset; every other
\* event and every drain and stats call leaves it as it is.
C15_TooManyGuard ==
    [][server_state = "TooManyChanges" =>
        /\ server_state' \in {"TooManyChanges", "ChangesErroneousDropped", "Ok"}
        /\ server_state' = "ChangesErroneousDropped" => DegradedEvent(last')
        /\ server_state' = "Ok" =>
              (last'.op = "reset" /\ new' = {} /\ removed' = {})
        /\ (PlainEvent(last') \/ ReadOp(last')) =>
              UNCHANGED <<server_state, new, removed>>]_vars

\* A Create event was delivered in TooManyChanges and discarded.
C15_Witness ==
    /\ server_state = "TooManyChanges"
    /\ last.from = "TooManyChanges"
    /\ PlainEvent(last)
    /\ last.event.kind = "Create"
    /\ last.event.paths # <<>>
    /\ new = {} /\ removed = {}

\* C16 (created then removed): in every state and for every path p, Create [p]
\* followed at once by Remove [p] leaves the tracker in the state Remove [p]
\* alone leaves it in: same variant, same sets, same ceiling crossing.
C16_CreateThenRemove ==
    \A p \in Paths, debug_assertions \in BOOLEAN :
        watcher_callback(
            watcher_callback(locked, OkEvent("Create", <<p>>, FALSE), change_limit,
                             debug_assertions),
            OkEvent("Remove", <<p>>, FALSE), change_limit, debug_assertions)
        = watcher_callback(locked, OkEvent("Remove", <<p>>, FALSE), change_limit,
                           debug_assertions)

\* Remove [1] was applied with the tracker at its limit: path 1 is in
\* `removed` only, and another Create [1]; Remove [1] would end here again.
C16_Witness ==
    /\ server_state = "Ok"
    /\ PlainEvent(last)
    /\ last.event.kind = "Remove"
    /\ last.event.paths = <<1>>
    /\ change_limit > 0
    /\ Total = change_limit
    /\ 1 \in removed /\ 1 \notin new

\* The page a drain of `set` with requested size `size` returned, and what
\* it left in the set.
C18_PageOf(set, size, resp, rest) ==
    /\ resp.len = Min(Min(size, MaxDrainSize), Cardinality(set))
    /\ Cardinality(resp.paths) = resp.len
    /\ resp.paths \subseteq set
    /\ rest = set \ resp.paths
C18_Scenario(set, size, resp) ==
    /\ (Cardinality(set) > MaxDrainSize /\ size = 99999) =>
          (resp.len = MaxDrainSize /\ ~resp.done)
    /\ (Cardinality(set) < MaxDrainSize /\ size = MaxDrainSize) =>
          (resp.len = Cardinality(set) /\ resp.done)

\* C18 (drain page content): a drain in Ok with requested size s on a set of
\* n paths returns min(min(s, 1000), n) distinct paths, all of the set before
\* and none of it after, and leaves the other paths in the set; a page of
\* size 99999 of more than 1000 paths has 1000 paths and done = false, a page
\* of size 1000 of fewer than 1000 paths (none included) has them all and
\* done = true.  The same is checked of the handlers on every set of at most
\* NumPaths paths with every small and large size.
C18_DrainPage ==
    /\ [][server_state = "Ok" =>
            /\ last'.op = "drain_new" =>
                  /\ C18_PageOf(new, last'.size, last'.resp, new')
                  /\ C18_Scenario(new, last'.size, last'.resp)
            /\ last'.op = "drain_removed" =>
                  /\ C18_PageOf(removed, last'.size, last'.resp, removed')
                  /\ C18_Scenario(removed, last'.size, last'.resp)]_vars
    /\ [](\A T \in SUBSET Paths : \A size \in RequestSizes \cup BigSizes :
            /\ \A r \in drain_new_handler(Ok(T, removed), size) :
                  C18_PageOf(T, size, r.resp, r.state.new)
            /\ \A r \in drain_removed_handler(Ok(new, T), size) :
                  C18_PageOf(T, size, r.resp, r.state.removed))

\* The second page of 1001 paths: one path, done, and the set is empty.
C18_Witness ==
    /\ server_state = "Ok"
    /\ last.op = "drain_new"
    /\ last.size = MaxDrainSize
    /\ last.resp.len = 1
    /\ last.resp.done
    /\ new = {}

\* C19 (frame of the read operations): drain_new changes neither `removed`
\* nor the variant, drain_removed changes neither `new` nor the variant,
\* stats changes nothing and reports |new| and |removed| in Ok.
C19_Frame ==
    [][/\ last'.op = "drain_new" =>
             (removed' = removed /\ server_state' = server_state)
       /\ last'.op = "drain_removed" =>
             (new' = new /\ server_state' = server_state)
       /\ last'.op = "stats" =>
             /\ UNCHANGED <<server_state, new, removed>>
             /\ server_state = "Ok" =>
                   /\ last'.resp.new = Cardinality(new)
                   /\ last'.resp.removed = Cardinality(removed)]_vars

\* A path of both sets was drained from `new` and is still in `removed`.
C19_Witness ==
    /\ server_state = "Ok"
    /\ last.op = "drain_new"
    /\ last.resp.paths \cap removed # {}
    /\ last.resp.paths \cap new = {}

\* The event matches no arm of the callback that changes the sets.
C20_Unmatched(ev) ==
    \/ ev.kind = "Access"
    \/ ev.kind = "RenameBoth" /\ Len(ev.paths) # 2

\* C20 (events that match no rule): a Rename-Both event without exactly two
\* paths and an event of a kind other than Create, Remove and Modify leave
\* the variant and both sets as they are, in every state; so does the
\* Rename-Both event in a build with debug assertions, where the callback
\* panics instead of returning.
C20_NoOpEvents ==
    [][(PlainEvent(last') /\ C20_Unmatched(last'.event)) =>
          UNCHANGED <<server_state, new, removed>>]_vars

\* A Rename-Both event with one path came in Ok at the limit, the callback
\* returned and nothing has changed.
C20_Witness ==
    /\ server_state = "Ok"
    /\ ~poisoned
    /\ PlainEvent(last)
    /\ last.event.kind = "RenameBoth"
    /\ Len(last.event.paths) = 1
    /\ last.event.paths[1] \notin new \cup removed
    /\ Total = change_limit
    /\ change_limit > 0

\* The paths of both sets.
C14_InBoth == new \cap removed
C14_OtherApplied ==
    /\ server_state = "Ok"
    /\ PlainEvent(last')
    /\ last'.event.kind = "RenameOther"
    /\ server_state' = "Ok"

\* C14 (renames of unknown direction), as claimed: a Rename-Other event
\* that leaves the tracker Ok leaves its paths in both sets; and every path
\* of both sets of an Ok state was named by a Rename-Other event applied
\* since the last reset and by no later event of another kind.
C14_AsClaimed ==
    /\ [][C14_OtherApplied => Range(last'.event.paths) \subseteq C14_InBoth']_vars
    /\ [](server_state = "Ok" => \A p \in C14_InBoth : named[p] = "other")

\* C14, amended: ... and by no later event of another kind that changes the
\* sets (Create, Remove, Modify, Rename-To, Rename-From, Rename-Both with two
\* paths); later events that match no arm of the callback leave it in both.
C14_OnlyRenameOther ==
    /\ [][C14_OtherApplied => Range(last'.event.paths) \subseteq C14_InBoth']_vars
    /\ [](server_state = "Ok" =>
            \A p \in C14_InBoth : named[p] \in {"other", "other_ignored"})

\* Rename-Other [1] was applied to a path of `removed`: it is in both sets
\* now, path 2 is still in `removed` only.
C14_Witness ==
    /\ server_state = "Ok"
    /\ PlainEvent(last)
    /\ last.event.kind = "RenameOther"
    /\ last.event.paths = <<1>>
    /\ new = {1}
    /\ removed = {1, 2}
    /\ named[1] = "other"

\* The thread takes, respectively drops, its guard in this step.
C17_Locks(t) == t \notin holder /\ t \in holder'
C17_Unlocks(t) == t \in holder /\ t \notin holder'
\* The handler task reads the state behind the lock in this step.
C17_Observes(h) == hd[h].pc # "idle" /\ hd'[h] # hd[h]
C17_After == [new |-> new', removed |-> removed', tag |-> server_state']
\* What is behind the lock is what the last whole operation left there, and
\* no event is partly applied.
C17_Whole ==
    /\ cb.pc = "idle"
    /\ server_state = "Ok" => Total <= change_limit

\* C17 (atomicity under the lock): with the watcher thread and the handler
\* tasks taking their steps one by one, every event, reset, stats and drain
\* ends with the state, and the response, the operation gives when it is
\* applied as a whole to what the operation before it left; a handler finds
\* behind the lock what the last whole operation left there and never reads
\* the state while an event is partly applied or an Ok state exceeds the
\* limit; the callback ends with the event it was called with.
C17_Atomic ==
    [][/\ \A t \in Handlers \cup {WatcherThread} :
             C17_Locks(t) => locked = stable
       /\ C17_Unlocks(WatcherThread) =>
             /\ C17_After = watcher_callback(stable, cb.ev, change_limit, poisoned')
             /\ poisoned' = callback_panics(stable, cb.ev, poisoned')
       /\ \A h \in Handlers :
             /\ (C17_Locks(h) \/ C17_Observes(h)) => C17_Whole
             /\ C17_Unlocks(h) =>
                   /\ hd[h].op = "reset" => C17_After = reset_handler(stable)
                   /\ hd[h].op = "stats" =>
                         /\ C17_After = stable
                         /\ hd[h].resp = stats_handler(stable)
                   /\ hd[h].op = "drain_new" =>
                         [state |-> C17_After, resp |-> hd[h].resp]
                             \in drain_new_handler(stable, hd[h].size)
                   /\ hd[h].op = "drain_removed" =>
                         [state |-> C17_After, resp |-> hd[h].resp]
                             \in drain_removed_handler(stable, hd[h].size)]_vars

\* A rename [from, to] is half applied, `from` moved and `to` not yet added,
\* with more paths in the Ok state than the limit admits, while a handler
\* task has not been given the lock.
C17_Witness ==
    /\ server_state = "Ok"
    /\ holder = {WatcherThread}
    /\ cb.pc = "apply"
    /\ cb.ev.kind = "RenameBoth"
    /\ Len(cb.ev.paths) = 2
    /\ Len(cb.todo) = 1
    /\ cb.ev.paths[1] \in removed
    /\ cb.ev.paths[2] \notin new
    /\ Total > change_limit

====
